---- MODULE Spec2Model ----
(***************************************************************************)
(* A model of package gotex (src/main.go): Render drives an external LaTeX *)
(* compiler in a fresh temporary directory, one or more passes, then reads *)
(* gotex.pdf and removes the directory.                                    *)
(*                                                                         *)
(* Each Render call is a process that moves through the blocking points of *)
(* the function: ioutil.TempDir, the loop test, cmd.Start, cmd.Wait, the   *)
(* needsRerun scan, ioutil.ReadFile and os.RemoveAll.  The file system is  *)
(* shared by all calls.  The compiler, the temp-directory facility and the *)
(* process table are the environment: their outcomes are chosen            *)
(* nondeterministically.                                                   *)
(***************************************************************************)
EXTENDS Integers, Sequences, FiniteSets, TLC

VARIABLES
    calls,      \* the Render calls that exist in this behaviour
    options,    \* options[p]: the Options value the call was given (by value)
    pc,         \* pc[p]: where the call is in Render
    dir,        \* dir[p]: the local `dir` (NoDir before TempDir succeeded)
    maxRuns,    \* maxRuns[p]: the local `maxRuns`
    runs,       \* runs[p]: the local loop counter `runs`
    rerun,      \* rerun[p]: the local loop variable `rerun`
    result,     \* result[p]: what Render returned, [output, err]
    fs,         \* the file system under os.TempDir(): fs[d] for each name d
    \* history of each call, for stating the properties
    invoked,    \* invoked[p]: number of runLatex calls made
    scans,      \* scans[p]: number of needsRerun calls made
    scanned,    \* scanned[p]: the log file the last needsRerun call opened
    reads,      \* reads[p]: number of ioutil.ReadFile calls made
    removes,    \* removes[p]: number of os.RemoveAll calls made
    removeOk,   \* removeOk[p]: whether the os.RemoveAll call succeeded
    runErr,     \* runErr[p]: the error runLatex returned (Nil if none so far)
    firstQuiet, \* firstQuiet[p]: first pass of p whose compiler wrote a log
                \* without the rerun marker (0 if none so far)
    pdfPass     \* pdfPass[p]: last pass of p whose compiler wrote a gotex.pdf
                \* (0 if none so far)

vars == <<calls, options, pc, dir, maxRuns, runs, rerun, result, fs,
          invoked, scans, scanned, reads, removes, removeOk, runErr, firstQuiet,
          pdfPass>>

locals == <<maxRuns, runs, rerun>>
history == <<invoked, scans, scanned, reads, removes, removeOk, runErr, firstQuiet,
             pdfPass>>

(***************************************************************************)
(* Bounds of the model.                                                    *)
(***************************************************************************)
\* The largest explicit Options.Runs a call is given (more than AutoLimit, so
\* that a fixed count above the automatic ceiling is exercised).
MaxRunsOpt == 6
\* The most negative Options.Runs a call is given is -MaxNegRuns.
MaxNegRuns == 1

\* Identities of the Render calls; Spec runs the first alone, SpecConc both.
Calls == {"c1", "c2"}
SoloCalls == {"c1"}
\* The names ioutil.TempDir can draw (its random suffixes).
Dirs == {"gotex-1", "gotex-2"}
NoDir == "none"

\* The longest log (in lines) given to needsRerun on its own.
MaxScanLines == 3

\* Options.Runs values given to a lone call, and to concurrent calls.
RunsValues == (0 - MaxNegRuns) .. MaxRunsOpt
ConcRunsValues == {0, 2}
\* Options.Command values: unset, or an explicit compiler.
Commands == {"", "/usr/bin/xelatex"}
ConcCommands == {""}

(***************************************************************************)
(* Program constants.                                                      *)
(***************************************************************************)
\* `var maxRuns = 5`: the ceiling of automagic mode.
AutoLimit == 5
DefaultCommand == "pdflatex"
LogName == "gotex.log"
PdfName == "gotex.pdf"
\* The words searched for by needsRerun: strings.Contains(line, "Rerun to get").
\* A line is modelled as its sequence of words.
Marker == <<"Rerun", "to", "get">>

(***************************************************************************)
(* Log files the compiler can leave: sequences of lines.                   *)
(***************************************************************************)
LogClean == << <<"This", "is", "pdfTeX">>,
               <<"Output", "written", "on", "gotex.pdf">> >>
LogRerun == << <<"This", "is", "pdfTeX">>,
               <<"Label(s)", "may", "have", "changed.", "Rerun", "to", "get",
                 "cross-references", "right.">> >>
\* The marker's words broken over two lines: no single line contains it.
LogSplit == << <<"Package", "says", "Rerun", "to">>,
               <<"get", "outlines", "right">> >>
Logs == {LogClean, LogRerun, LogSplit}

\* Lines of the logs given to needsRerun on its own: empty, without the
\* marker, the marker alone, inside a line, cut off at the line's end, its
\* last word alone, and after a false start.
ScanLines == { <<>>,
               <<"This", "is", "pdfTeX">>,
               <<"Rerun", "to", "get">>,
               <<"Label(s)", "may", "have", "changed.", "Rerun", "to", "get",
                 "cross-references", "right.">>,
               <<"Package", "says", "Rerun", "to">>,
               <<"get", "outlines", "right">>,
               <<"Rerun", "to", "Rerun", "to", "get">> }
ScanLogs == UNION {[1 .. k -> ScanLines] : k \in 0 .. MaxScanLines}

(***************************************************************************)
(* Files and directories.  A file records who wrote it (the call whose     *)
(* compiler process it was, and in which pass) besides its body.           *)
(***************************************************************************)
NoFile == [by |-> "none", pass |-> 0, body |-> <<>>]
File(p, n, b) == [by |-> p, pass |-> n, body |-> b]
PdfBody == << <<"%PDF">> >>

NoDirEntry == [exists |-> FALSE, creator |-> "none", log |-> NoFile, pdf |-> NoFile]
NewDirEntry(p) == [exists |-> TRUE, creator |-> p, log |-> NoFile, pdf |-> NoFile]

\* Errors: nil, or a kind with the path its message names.
Nil == [kind |-> "nil", path |-> <<>>]
NilBytes == NoFile

\* path.Join(dir, name)
Join(d, name) == <<d, name>>

(***************************************************************************)
(* Pure parts of the code.                                                 *)
(***************************************************************************)
\* strings.Contains(line, pat)
Contains(line, pat) ==
    \E i \in 1 .. (Len(line) - Len(pat) + 1) :
        SubSeq(line, i, i + Len(pat) - 1) = pat

\* The scanner loop of needsRerun: true at the first line holding the marker.
RECURSIVE ScanFrom(_, _)
ScanFrom(lines, i) ==
    IF i > Len(lines) THEN FALSE
    ELSE IF Contains(lines[i], Marker) THEN TRUE
    ELSE ScanFrom(lines, i + 1)

\* os.Open(path.Join(dir, "gotex.log")) succeeds
CanOpenLog(f, d) == d \in Dirs /\ f[d].exists /\ f[d].log # NoFile

\* (variant: the file searched as one string, not line by line)
RECURSIVE Flatten(_)
Flatten(lines) == IF lines = <<>> THEN <<>> ELSE Head(lines) \o Flatten(Tail(lines))
NeedsRerunWholeFile(f, d) ==
    IF ~CanOpenLog(f, d) THEN FALSE
    ELSE Contains(Flatten(f[d].log.body), Marker)
\* needsRerun(dir), against file system f
NeedsRerun(f, d) ==
    IF ~CanOpenLog(f, d) THEN FALSE
    ELSE ScanFrom(f[d].log.body, 1)

\* (variant: `maxRuns = options.Runs`, without the default)
MaxRunsOfRaw(r) == r
\* `maxRuns = 5; if options.Runs > 0 { maxRuns = options.Runs }`
MaxRunsOf(r) == IF r > 0 THEN r ELSE AutoLimit

\* (variant: the rerun flag dropped from the loop condition)
LoopCondIgnoresRerun(rr, n, m) == n < m
\* (variant: `runs <= maxRuns`)
LoopCondOffByOne(rr, n, m) == rr /\ n <= m
\* (variant: the loop left one pass early)
LoopCondStopsEarly(rr, n, m) == rr /\ n + 1 < m
\* the loop condition `rerun && runs < maxRuns`
LoopCond(rr, n, m) == rr /\ n < m

\* (variant: `options.Runs >= 0`)
AutomagicAnyRuns(r) == r >= 0
\* (variant: `options.Runs < 0`)
AutomagicNegative(r) == r < 0
\* `if options.Runs == 0 { rerun = needsRerun(dir) }`: whether the scan is made
Automagic(r) == r = 0

\* `if options.Command == "" { options.Command = "pdflatex" }`
CommandOf(c) == IF c = "" THEN DefaultCommand ELSE c

\* (variant: a name is returned whether or not it is taken)
AnyDirNames(f) == Dirs
\* The names ioutil.TempDir may return: it retries until os.Mkdir creates a
\* directory that did not exist.
TempDirNames(f) == {d \in Dirs : ~f[d].exists}

\* os.Mkdir of d by call p
Mkdir(f, d, p) == IF f[d].exists THEN f ELSE [f EXCEPT ![d] = NewDirEntry(p)]

\* The compiler process of call p, pass n, running with cmd.Dir = d, leaves
\* its log (and its pdf when it wrote one) in d.
CompilerWrites(f, d, p, n, log, writesPdf) ==
    IF ~f[d].exists THEN f
    ELSE [f EXCEPT ![d].log = File(p, n, log),
                   ![d].pdf = IF writesPdf THEN File(p, n, PdfBody) ELSE @]

\* (variant: only the two known files are removed, the directory stays)
RemoveFilesOnly(f, d) == [f EXCEPT ![d].log = NoFile, ![d].pdf = NoFile]
\* os.RemoveAll(dir) when it succeeds
RemoveAll(f, d) == [f EXCEPT ![d] = NoDirEntry]
\* os.RemoveAll(dir) when it fails: the directory stays, with or without files
RemoveAllFailed(f, d, keepFiles) ==
    IF keepFiles THEN f ELSE [f EXCEPT ![d].log = NoFile, ![d].pdf = NoFile]

\* errors.New("LaTeX error. Check " + path.Join(dir, "gotex.log"))
ErrLatex(d) == [kind |-> "LaTeX error. Check ", path |-> Join(d, LogName)]
\* the error of cmd.Start (its message names the command, not the directory)
ErrStart(c) == [kind |-> "exec", path |-> <<c>>]
\* the error of cmd.Wait
ErrExit == [kind |-> "exit status 1", path |-> <<>>]
\* the error of ioutil.TempDir
ErrTempDir == [kind |-> "mkdir", path |-> <<>>]
\* the error of os.RemoveAll
ErrRemoveAll(d) == [kind |-> "unlinkat", path |-> <<d>>]
\* the error of ioutil.ReadFile
ErrReadFile(d) == [kind |-> "open", path |-> Join(d, PdfName)]

\* runLatex: `if err != nil { return err }` after cmd.Start
StartResult(e, d) == e
\* runLatex: `if err != nil { return errors.New(...) }` after cmd.Wait
WaitResult(e, d) == IF e # Nil THEN ErrLatex(d) ELSE Nil

\* (variant: the error of ioutil.TempDir ignored)
AfterTempDirIgnored(e) == "loop"
\* Render: `if err != nil { return nil, err }` after ioutil.TempDir
AfterTempDir(e) == IF e # Nil THEN "done" ELSE "loop"

\* (variant: cmd.Dir left unset, the child runs in another directory)
CmdDirUnset(d) == CHOOSE x \in Dirs : x # d
\* runLatex: `cmd.Dir = dir`
CmdDir(d) == d

\* (variant: a failed pass is waited for again instead of being returned)
AfterRunLatexWaitAgain(e) == IF e # Nil THEN "wait" ELSE "scan"
\* (variant: the error of runLatex ignored)
AfterRunLatexIgnored(e) == "scan"
\* Render: `if err != nil { return nil, err }` after runLatex
AfterRunLatex(e) == IF e # Nil THEN "done" ELSE "scan"

\* (variant: the cleanup deferred, so that it runs on error returns too)
DeferredCleanup(f, d) == [f EXCEPT ![d] = NoDirEntry]
\* What an error return of Render leaves of the file system: "The directory
\* cleanup is purposefully not deferred here".
KeepOnFailure(f, d) == f

\* Render's return values
Failure(e) == [output |-> NilBytes, err |-> e]
Success(bytes) == [output |-> bytes, err |-> Nil]
\* (variant: `return output, err`)
ReadFailureWithBytes(bytes, e) == [output |-> bytes, err |-> e]
\* `return nil, err` after ioutil.ReadFile failed
ReadFailure(bytes, e) == Failure(e)
\* (variant: the error of os.RemoveAll returned)
AfterRemoveAllChecked(res, e) == IF e # Nil THEN Failure(e) ELSE res
\* `_ = os.RemoveAll(dir); return output, nil`: the error is dropped
AfterRemoveAll(res, e) == res
NoResult == [output |-> NilBytes, err |-> [kind |-> "pending", path |-> <<>>]]

(***************************************************************************)
(* Initial states.                                                         *)
(***************************************************************************)
InitWith(cs, runsValues, commands) ==
    /\ calls = cs
    /\ options \in [Calls -> [Command : commands, Runs : runsValues]]
    /\ \A p \in Calls \ cs : options[p] = [Command |-> "", Runs |-> 0]
    /\ pc = [p \in Calls |-> IF p \in cs THEN "start" ELSE "none"]
    /\ dir = [p \in Calls |-> NoDir]
    /\ maxRuns = [p \in Calls |-> 0]
    /\ runs = [p \in Calls |-> 0]
    /\ rerun = [p \in Calls |-> FALSE]
    /\ result = [p \in Calls |-> NoResult]
    /\ fs = [d \in Dirs |-> NoDirEntry]
    /\ invoked = [p \in Calls |-> 0]
    /\ scans = [p \in Calls |-> 0]
    /\ scanned = [p \in Calls |-> NoFile]
    /\ reads = [p \in Calls |-> 0]
    /\ removes = [p \in Calls |-> 0]
    /\ removeOk = [p \in Calls |-> FALSE]
    /\ runErr = [p \in Calls |-> Nil]
    /\ firstQuiet = [p \in Calls |-> 0]
    /\ pdfPass = [p \in Calls |-> 0]

Init == InitWith(SoloCalls, RunsValues, Commands)
InitConc == InitWith(Calls, ConcRunsValues, ConcCommands)

\* needsRerun on its own: an automagic call whose first pass has just
\* succeeded, about to call needsRerun(dir), in front of each state of
\* gotex.log: any log of ScanLogs, no log file, no directory.
ScanCall == "c1"
ScanDir == "gotex-1"
InitScan ==
    /\ calls = {ScanCall}
    /\ options = [p \in Calls |->
                    [Command |-> IF p = ScanCall THEN DefaultCommand ELSE "",
                     Runs |-> 0]]
    /\ pc = [p \in Calls |-> IF p = ScanCall THEN "scan" ELSE "none"]
    /\ dir = [p \in Calls |-> IF p = ScanCall THEN ScanDir ELSE NoDir]
    /\ maxRuns = [p \in Calls |-> IF p = ScanCall THEN MaxRunsOf(0) ELSE 0]
    /\ runs = [p \in Calls |-> 0]
    /\ rerun = [p \in Calls |-> p = ScanCall]
    /\ result = [p \in Calls |-> NoResult]
    /\ \E entry \in {NoDirEntry, NewDirEntry(ScanCall)}
                       \cup {[NewDirEntry(ScanCall) EXCEPT !.log = File(ScanCall, 1, b)]
                                : b \in ScanLogs} :
          /\ fs = [d \in Dirs |-> IF d = ScanDir THEN entry ELSE NoDirEntry]
          /\ firstQuiet = [p \in Calls |->
                             IF p = ScanCall
                                /\ ~(entry.log # NoFile /\ ScanFrom(entry.log.body, 1))
                             THEN 1 ELSE 0]
    /\ invoked = [p \in Calls |-> IF p = ScanCall THEN 1 ELSE 0]
    /\ scans = [p \in Calls |-> 0]
    /\ scanned = [p \in Calls |-> NoFile]
    /\ reads = [p \in Calls |-> 0]
    /\ removes = [p \in Calls |-> 0]
    /\ removeOk = [p \in Calls |-> FALSE]
    /\ runErr = [p \in Calls |-> Nil]
    /\ pdfPass = [p \in Calls |-> 0]

(***************************************************************************)
(* Render, step by step.                                                   *)
(***************************************************************************)
\* Lines 61-79: default the command, create the temporary directory, set
\* maxRuns and the loop variables.
TempDir(p) ==
    /\ pc[p] = "start"
    /\ options' = [options EXCEPT ![p].Command = CommandOf(@)]
    /\ \/ \E d \in TempDirNames(fs) :
            /\ fs' = Mkdir(fs, d, p)
            /\ dir' = [dir EXCEPT ![p] = d]
            /\ maxRuns' = [maxRuns EXCEPT ![p] = MaxRunsOf(options[p].Runs)]
            /\ runs' = [runs EXCEPT ![p] = 0]
            /\ rerun' = [rerun EXCEPT ![p] = TRUE]
            /\ pc' = [pc EXCEPT ![p] = AfterTempDir(Nil)]
            /\ UNCHANGED result
       \/ /\ result' = [result EXCEPT ![p] =
                            IF AfterTempDir(ErrTempDir) = "done"
                            THEN Failure(ErrTempDir) ELSE @]
          /\ pc' = [pc EXCEPT ![p] = AfterTempDir(ErrTempDir)]
          /\ UNCHANGED <<fs, dir, locals>>
    /\ UNCHANGED <<calls, history>>

\* Line 82: the loop test.
LoopTest(p) ==
    /\ pc[p] = "loop"
    /\ pc' = [pc EXCEPT ![p] =
                IF LoopCond(rerun[p], runs[p], maxRuns[p]) THEN "exec" ELSE "read"]
    /\ UNCHANGED <<calls, options, dir, locals, result, fs, history>>

\* Lines 83, 105-119: runLatex prepares the command and cmd.Start either
\* spawns the child or fails.
CmdStart(p) ==
    /\ pc[p] = "exec"
    /\ invoked' = [invoked EXCEPT ![p] = @ + 1]
    /\ \/ /\ pc' = [pc EXCEPT ![p] = "wait"]
          /\ UNCHANGED <<result, runErr, fs>>
       \/ LET e == StartResult(ErrStart(options[p].Command), dir[p]) IN
          /\ runErr' = [runErr EXCEPT ![p] = e]
          /\ pc' = [pc EXCEPT ![p] = AfterRunLatex(e)]
          /\ result' = [result EXCEPT ![p] =
                            IF AfterRunLatex(e) = "done" THEN Failure(e) ELSE @]
          /\ fs' = IF AfterRunLatex(e) = "done" THEN KeepOnFailure(fs, dir[p])
                   ELSE fs
    /\ UNCHANGED <<calls, options, dir, locals,
                   scans, scanned, reads, removes, removeOk, firstQuiet, pdfPass>>

\* Lines 120-125, 84-86: the child runs in cmd.Dir, writes its files and
\* exits; cmd.Wait returns, runLatex returns, Render tests the error.
CmdWait(p) ==
    /\ pc[p] = "wait"
    /\ \E log \in Logs, writesPdf \in BOOLEAN, exitOk \in BOOLEAN :
          LET n == runs[p] + 1
              e == WaitResult(IF exitOk THEN Nil ELSE ErrExit, dir[p])
              written == CompilerWrites(fs, CmdDir(dir[p]), p, n, log, writesPdf)
          IN
          /\ fs' = IF e # Nil /\ AfterRunLatex(e) = "done"
                   THEN KeepOnFailure(written, dir[p]) ELSE written
          /\ firstQuiet' = [firstQuiet EXCEPT ![p] =
                              IF @ = 0 /\ ~ScanFrom(log, 1) THEN n ELSE @]
          /\ pdfPass' = [pdfPass EXCEPT ![p] = IF writesPdf THEN n ELSE @]
          /\ runErr' = [runErr EXCEPT ![p] = e]
          /\ pc' = [pc EXCEPT ![p] = AfterRunLatex(e)]
          /\ result' = [result EXCEPT ![p] =
                            IF e # Nil /\ AfterRunLatex(e) = "done"
                            THEN Failure(e) ELSE @]
    /\ UNCHANGED <<calls, options, dir, locals,
                   invoked, scans, scanned, reads, removes, removeOk>>

\* Lines 87-91 and the loop's post statement: in automagic mode scan the log,
\* then runs++.
Scan(p) ==
    /\ pc[p] = "scan"
    /\ IF Automagic(options[p].Runs)
       THEN /\ rerun' = [rerun EXCEPT ![p] = NeedsRerun(fs, dir[p])]
            /\ scans' = [scans EXCEPT ![p] = @ + 1]
            /\ scanned' = [scanned EXCEPT ![p] =
                              IF CanOpenLog(fs, dir[p]) THEN fs[dir[p]].log
                              ELSE NoFile]
       ELSE UNCHANGED <<rerun, scans, scanned>>
    /\ runs' = [runs EXCEPT ![p] = @ + 1]
    /\ pc' = [pc EXCEPT ![p] = "loop"]
    /\ UNCHANGED <<calls, options, dir, maxRuns, result, fs,
                   invoked, reads, removes, removeOk, runErr, firstQuiet, pdfPass>>

\* Lines 93-97: slurp gotex.pdf.  A missing file fails; a file that is there
\* can still fail to be read.
ReadFile(p) ==
    /\ pc[p] = "read"
    /\ reads' = [reads EXCEPT ![p] = @ + 1]
    /\ LET d == dir[p]
           there == fs[d].exists /\ fs[d].pdf # NoFile
       IN \/ /\ there
             /\ result' = [result EXCEPT ![p] = Success(fs[d].pdf)]
             /\ pc' = [pc EXCEPT ![p] = "cleanup"]
             /\ UNCHANGED fs
          \/ /\ result' = [result EXCEPT ![p] =
                              ReadFailure(fs[d].pdf, ErrReadFile(d))]
             /\ pc' = [pc EXCEPT ![p] = "done"]
             /\ fs' = KeepOnFailure(fs, d)
    /\ UNCHANGED <<calls, options, dir, locals,
                   invoked, scans, scanned, removes, removeOk, runErr, firstQuiet,
                   pdfPass>>

\* Lines 99-101: `_ = os.RemoveAll(dir)` and `return output, nil`.
Cleanup(p) ==
    /\ pc[p] = "cleanup"
    /\ removes' = [removes EXCEPT ![p] = @ + 1]
    /\ \/ /\ fs' = RemoveAll(fs, dir[p])
          /\ removeOk' = [removeOk EXCEPT ![p] = TRUE]
          /\ result' = [result EXCEPT ![p] = AfterRemoveAll(@, Nil)]
       \/ /\ \E keepFiles \in BOOLEAN : fs' = RemoveAllFailed(fs, dir[p], keepFiles)
          /\ removeOk' = [removeOk EXCEPT ![p] = FALSE]
          /\ result' = [result EXCEPT ![p] = AfterRemoveAll(@, ErrRemoveAll(dir[p]))]
    /\ pc' = [pc EXCEPT ![p] = "done"]
    /\ UNCHANGED <<calls, options, dir, locals,
                   invoked, scans, scanned, reads, runErr, firstQuiet, pdfPass>>

Next ==
    \/ \E p \in calls : TempDir(p)
    \/ \E p \in calls : LoopTest(p)
    \/ \E p \in calls : CmdStart(p)
    \/ \E p \in calls : CmdWait(p)
    \/ \E p \in calls : Scan(p)
    \/ \E p \in calls : ReadFile(p)
    \/ \E p \in calls : Cleanup(p)

\* One Render call on its own.
Spec == Init /\ [][Next]_vars
\* Two Render calls running concurrently.
SpecConc == InitConc /\ [][Next]_vars

\* One Render call on its own, which keeps running as long as it can take a
\* step: Render is sequential code, and every compiler process that was
\* started exits (CmdWait is taken).
Step(p) ==
    \/ TempDir(p)
    \/ LoopTest(p)
    \/ CmdStart(p)
    \/ CmdWait(p)
    \/ Scan(p)
    \/ ReadFile(p)
    \/ Cleanup(p)
SpecLive == Init /\ [][Next]_vars /\ \A p \in Calls : WF_vars(Step(p))

\* needsRerun applied to each log of InitScan.
NextScan == \E p \in calls : Scan(p)
SpecScan == InitScan /\ [][NextScan]_vars

(***************************************************************************)
(* Vocabulary of the properties.                                           *)
(***************************************************************************)
\* The call created its directory, left the loop, and no pass failed.
LoopOver(p) ==
    /\ pc[p] \in {"read", "cleanup", "done"}
    /\ dir[p] # NoDir
    /\ runErr[p] = Nil

\* Render has returned.
Returned(p) == pc[p] = "done"
Failed(p) == Returned(p) /\ result[p].err # Nil
Succeeded(p) == Returned(p) /\ result[p].err = Nil

\* The directory the call created is (still) on disk.
HoldsDir(p) ==
    /\ dir[p] # NoDir
    /\ fs[dir[p]].exists
    /\ fs[dir[p]].creator = p

(***************************************************************************)
(* C1: with Runs = N > 0 and every pass succeeding, runLatex is called     *)
(* exactly N times whatever the logs hold, and needsRerun is never called. *)
(***************************************************************************)
C1_FixedCountExact ==
    \A p \in calls :
        options[p].Runs > 0 =>
            /\ invoked[p] <= options[p].Runs
            /\ scans[p] = 0
            /\ LoopOver(p) => invoked[p] = options[p].Runs

\* Six passes were run although the very first log carried no rerun marker
\* and the last one asks for a rerun.
C1_Witness ==
    \E p \in calls :
        /\ options[p].Runs = MaxRunsOpt
        /\ Succeeded(p)
        /\ firstQuiet[p] = 1
        /\ invoked[p] = MaxRunsOpt
        /\ result[p].output.pass = MaxRunsOpt

(***************************************************************************)
(* C2: with Runs = 0 and every pass succeeding, the number of passes is    *)
(* the index k (1..5) of the first pass whose log does not ask for a       *)
(* rerun.                                                                  *)
(***************************************************************************)
C2_AutoStopsAtFirstQuiet ==
    \A p \in calls :
        (options[p].Runs = 0 /\ firstQuiet[p] # 0) =>
            /\ firstQuiet[p] \in 1 .. AutoLimit
            /\ invoked[p] <= firstQuiet[p]
            /\ LoopOver(p) => invoked[p] = firstQuiet[p]

\* rerun, rerun, no rerun: three passes.
C2_Witness ==
    \E p \in calls :
        /\ options[p].Runs = 0
        /\ Succeeded(p)
        /\ firstQuiet[p] = 3
        /\ invoked[p] = 3
        /\ scans[p] = 3

(***************************************************************************)
(* C3: with Runs = 0 and every log asking for a rerun the loop stops after *)
(* exactly 5 passes; in automagic mode there is never a 6th runLatex call. *)
(***************************************************************************)
C3_AutoCeiling ==
    \A p \in calls :
        options[p].Runs = 0 =>
            /\ invoked[p] <= AutoLimit
            /\ (LoopOver(p) /\ firstQuiet[p] = 0) => invoked[p] = AutoLimit

\* Five passes, each leaving a log with the marker, and the loop is over.
C3_Witness ==
    \E p \in calls :
        /\ options[p].Runs = 0
        /\ LoopOver(p)
        /\ firstQuiet[p] = 0
        /\ invoked[p] = AutoLimit
        /\ rerun[p]

\* A compiler process of the call was started at least once.
CompilerRan(p) == runs[p] > 0 \/ (dir[p] # NoDir /\ runErr[p] = ErrLatex(dir[p]))

C5_SuccessRemovesDir ==
    \A p \in calls : Succeeded(p) => ~HoldsDir(p)

(***************************************************************************)
(* C5 amended: whenever Render returns success it has called os.RemoveAll  *)
(* on its directory once, and the directory no longer exists if that call  *)
(* succeeded; a failed removal is discarded and can leave the directory.   *)
(***************************************************************************)
C5_SuccessRemovesDirIfRemovable ==
    \A p \in calls :
        Succeeded(p) =>
            /\ removes[p] = 1
            /\ removeOk[p] => ~HoldsDir(p)

\* A successful render whose directory is gone.
C5_Witness ==
    \E p \in calls :
        /\ Succeeded(p)
        /\ result[p].output # NilBytes
        /\ removeOk[p]
        /\ ~fs[dir[p]].exists

(***************************************************************************)
(* C6: once a pass has failed, Render has returned that failure, and there *)
(* is no later runLatex call, needsRerun call, artifact read or removal.   *)
(***************************************************************************)
C6_PassFailureAborts ==
    \A p \in calls :
        runErr[p] # Nil =>
            /\ Returned(p)
            /\ result[p] = Failure(runErr[p])
            /\ invoked[p] = runs[p] + 1
            /\ scans[p] = IF Automagic(options[p].Runs) THEN runs[p] ELSE 0
            /\ reads[p] = 0
            /\ removes[p] = 0
            /\ HoldsDir(p)

\* The third pass of an automagic render failed.
C6_Witness ==
    \E p \in calls :
        /\ options[p].Runs = 0
        /\ runErr[p] # Nil
        /\ invoked[p] = 3
        /\ scans[p] = 2
        /\ Returned(p)

(***************************************************************************)
(* C7 as stated: a negative Runs behaves as Runs = 0: the passes stop at   *)
(* the first log without the rerun marker (at 5 at the latest) and         *)
(* needsRerun is called after every pass.                                  *)
(***************************************************************************)
AutoPasses(q) == IF q = 0 THEN AutoLimit ELSE q

AutoBehaviour(p) ==
    /\ scans[p] = runs[p]
    /\ LoopOver(p) => invoked[p] = AutoPasses(firstQuiet[p])

\* What Runs = 0 does (the reference C7 compares with); this holds.
C7_ZeroRunsReference ==
    \A p \in calls : options[p].Runs = 0 => AutoBehaviour(p)

C7_NegativeRunsIsAuto ==
    \A p \in calls : options[p].Runs < 0 => AutoBehaviour(p)

(***************************************************************************)
(* C8 as stated: every failure of runLatex, a failed start as well as a    *)
(* non-zero exit, reaches the caller as the "LaTeX error" naming the log   *)
(* file of the call's directory.                                           *)
(***************************************************************************)
C8_RunnerFailureNamesLog ==
    \A p \in calls :
        runErr[p] # Nil =>
            /\ runErr[p] = ErrLatex(dir[p])
            /\ Returned(p) => result[p].err = ErrLatex(dir[p])

(***************************************************************************)
(* C9: Render returns exactly one of its results: a failure comes with a   *)
(* nil artifact, artifact bytes come with a nil failure, on every exit.    *)
(***************************************************************************)
C9_ExactlyOneResult ==
    \A p \in calls :
        Returned(p) =>
            /\ result[p].err # Nil => result[p].output = NilBytes
            /\ result[p].output # NilBytes => result[p].err = Nil
            /\ result[p].err = Nil => result[p].output # NilBytes

\* gotex.pdf is there but reading it failed: the bytes are not returned.
C9_Witness ==
    \E p \in calls :
        /\ Returned(p)
        /\ result[p].err = ErrReadFile(dir[p])
        /\ fs[dir[p]].pdf # NoFile
        /\ result[p].output = NilBytes

(***************************************************************************)
(* C10: concurrent Render calls are independent.  Each call that is in     *)
(* progress has its own directory, distinct from that of every other call  *)
(* whose directory is on disk; the files in a directory are those of its   *)
(* creator's compiler; a call scans and reads only files of its own        *)
(* passes; and its number of passes and its result are what its own        *)
(* options and its own compiler's logs and files give when it runs alone.  *)
(***************************************************************************)
InProgress(p) == pc[p] \in {"loop", "exec", "wait", "scan", "read", "cleanup"}

\* The number of passes of a lone call with Runs = r whose first log without
\* the marker came at pass q (0: never), all passes succeeding.
SoloPasses(r, q) ==
    IF r > 0 THEN r
    ELSE IF r = 0 /\ q # 0 THEN q
    ELSE AutoLimit

SoloPassCount(p) == LoopOver(p) => invoked[p] = SoloPasses(options[p].Runs, firstQuiet[p])

\* SoloPasses is what a call does alone (checked under Spec).
C10_SoloReference == \A p \in calls : SoloPassCount(p)

C10_ConcurrentCallsIndependent ==
    /\ \A p \in calls : InProgress(p) => HoldsDir(p)
    /\ \A p, q \in calls :
          (p # q /\ InProgress(p) /\ (InProgress(q) \/ (Failed(q) /\ dir[q] # NoDir)))
              => dir[p] # dir[q]
    /\ \A d \in Dirs :
          /\ fs[d].log.by \in {"none", fs[d].creator}
          /\ fs[d].pdf.by \in {"none", fs[d].creator}
    /\ \A p \in calls :
          /\ scans[p] > 0 => scanned[p].by = p /\ scanned[p].pass = runs[p]
          /\ result[p].output # NilBytes => result[p].output.by = p
          /\ SoloPassCount(p)
          /\ (Failed(p) /\ dir[p] # NoDir) => HoldsDir(p)

\* Both calls are in the middle of their loops at once, in different
\* directories, each with a log of its own compiler in it.
C10_Witness ==
    /\ pc["c1"] = "wait"
    /\ pc["c2"] = "scan"
    /\ runs["c1"] = 1
    /\ runs["c2"] = 1
    /\ dir["c1"] # dir["c2"]
    /\ fs[dir["c1"]].log.by = "c1"
    /\ fs[dir["c2"]].log.by = "c2"

(***************************************************************************)
(* C11: needsRerun returns true if and only if gotex.log can be opened and *)
(* at least one of its lines contains "Rerun to get"; it returns false     *)
(* when no line does, and false, with no failure, when there is no file.   *)
(***************************************************************************)
\* Some line of the log has the three words of the marker in a row.
HasMarkerLine(lines) ==
    \E i \in 1 .. Len(lines) :
        \E j \in 1 .. Len(lines[i]) :
            /\ j + 2 <= Len(lines[i])
            /\ lines[i][j] = "Rerun"
            /\ lines[i][j + 1] = "to"
            /\ lines[i][j + 2] = "get"

LogThere(p) == fs[dir[p]].exists /\ fs[dir[p]].log # NoFile

C11_NeedsRerunIffMarkerLine ==
    \A p \in calls :
        /\ pc[p] = "scan" =>
              (NeedsRerun(fs, dir[p]) <=>
                  (LogThere(p) /\ HasMarkerLine(fs[dir[p]].log.body)))
        /\ (scans[p] = 1 /\ pc[p] = "loop") =>
              /\ rerun[p] <=> (LogThere(p) /\ HasMarkerLine(fs[dir[p]].log.body))
              /\ ~LogThere(p) => ~rerun[p]
              /\ result[p] = NoResult
              /\ runErr[p] = Nil

\* The marker is found in the third line, after a line that ends in its
\* first two words and a line that starts with its last.
C11_Witness ==
    \E p \in calls :
        /\ scans[p] = 1
        /\ pc[p] = "loop"
        /\ LogThere(p)
        /\ fs[dir[p]].log.body = << <<"Package", "says", "Rerun", "to">>,
                                    <<"get", "outlines", "right">>,
                                    <<"Rerun", "to", "Rerun", "to", "get">> >>
        /\ rerun[p]

\* No log file: needsRerun has returned false and Render goes on.
C11_WitnessNoFile ==
    \E p \in calls :
        /\ scans[p] = 1
        /\ pc[p] = "loop"
        /\ fs[dir[p]].exists
        /\ fs[dir[p]].log = NoFile
        /\ ~rerun[p]

(***************************************************************************)
(* C12: within one Render call gotex.pdf is read at most once and only     *)
(* after the loop has ended: when it is read no pass is pending (the loop  *)
(* condition is false and every pass started has exited), and after the    *)
(* read there is no runLatex call, no needsRerun call and no second read.  *)
(***************************************************************************)
ReadDone(p) == reads[p] >= 1

C12_ReadState ==
    \A p \in calls :
        /\ reads[p] <= 1
        /\ pc[p] = "read" => reads[p] = 0
        /\ (pc[p] = "read" \/ ReadDone(p)) =>
              /\ ~(rerun[p] /\ runs[p] < maxRuns[p])
              /\ invoked[p] = runs[p]
              /\ runErr[p] = Nil
        /\ ReadDone(p) => pc[p] \in {"cleanup", "done"}

C12_ReadStep ==
    \A p \in calls :
        ReadDone(p) =>
            /\ invoked'[p] = invoked[p]
            /\ scans'[p] = scans[p]
            /\ reads'[p] = reads[p]

C12_ReadOnceAfterLoop == []C12_ReadState /\ [][C12_ReadStep]_vars

\* The artifact has been read after three passes of an automagic call.
C12_Witness ==
    \E p \in calls :
        /\ options[p].Runs = 0
        /\ reads[p] = 1
        /\ pc[p] = "cleanup"
        /\ invoked[p] = 3
        /\ scans[p] = 3

(***************************************************************************)
(* C13 as stated: the directory of a call is created once and never        *)
(* changes, every file operation of the call is on it, the log scanned is  *)
(* the one left by the last pass executed and the artifact returned is the *)
(* one left by the last pass executed.                                     *)
(***************************************************************************)
\* dir is set once, to a directory the call created, and kept.
DirStable(p) ==
    /\ pc[p] \in {"loop", "exec", "wait", "scan", "read", "cleanup"} => HoldsDir(p)
    /\ dir[p] # NoDir => fs[dir[p]].creator \in {"none", p}
    /\ \A d \in Dirs : fs[d].creator = p => d = dir[p]

\* The files in the call's directory are those of its own passes, the log
\* that of the last pass that exited.
FilesOfOwnPasses(p) ==
    (dir[p] # NoDir /\ HoldsDir(p) /\ (removes[p] = 0)) =>
        /\ fs[dir[p]].log.by \in {"none", p}
        /\ fs[dir[p]].pdf.by \in {"none", p}
        /\ pc[p] \in {"scan"} => fs[dir[p]].log.pass = runs[p] + 1
        /\ pc[p] \in {"loop", "exec", "wait", "read"} => fs[dir[p]].log.pass = runs[p]

\* The log needsRerun opened was written by the pass that had just exited.
ScannedLastLog(p) ==
    scans[p] > 0 => (scanned[p].by = p /\ scanned[p].pass = scans[p])

C13_DirStep ==
    \A p \in calls : dir[p] # NoDir => dir'[p] = dir[p]

C13_StableDirLastPassFiles ==
    \A p \in calls :
        /\ DirStable(p)
        /\ FilesOfOwnPasses(p)
        /\ ScannedLastLog(p)
        /\ (ReadDone(p) /\ result[p].err = Nil) =>
              /\ result[p].output.by = p
              /\ result[p].output.pass = invoked[p]

(***************************************************************************)
(* C13 amended: the directory of a call is created once and never changes, *)
(* every file operation of the call is on it, and the log scanned is the   *)
(* one left by the last pass executed; the artifact returned is the        *)
(* gotex.pdf found in the directory after the last pass, that is the one   *)
(* written by the most recent pass that wrote an artifact (the last pass   *)
(* when it wrote one, an earlier pass when it did not).                    *)
(***************************************************************************)
C13_StableDirLatestFilesState ==
    \A p \in calls :
        /\ DirStable(p)
        /\ FilesOfOwnPasses(p)
        /\ ScannedLastLog(p)
        /\ (ReadDone(p) /\ result[p].err = Nil) =>
              /\ result[p].output.by = p
              /\ result[p].output.pass = pdfPass[p]
              /\ pdfPass[p] \in 1 .. invoked[p]

C13_StableDirLatestFiles ==
    []C13_StableDirLatestFilesState /\ [][C13_DirStep]_vars

\* Three passes; the log scanned last is the third pass's and the artifact
\* returned is the third pass's too.
C13_Witness ==
    \E p \in calls :
        /\ options[p].Runs = 0
        /\ Succeeded(p)
        /\ scans[p] = 3
        /\ scanned[p] = File(p, 3, LogSplit)
        /\ result[p].output = File(p, 3, PdfBody)

(***************************************************************************)
(* C14: in automagic mode runLatex and needsRerun alternate: needsRerun is *)
(* called once after each successful pass and not after a failed one, and  *)
(* a pass starts only when the previous pass has exited and its scan has   *)
(* returned; with Runs > 0 needsRerun is never called.                     *)
(***************************************************************************)
C14_RunnerDetectorAlternate ==
    \A p \in calls :
        /\ options[p].Runs = 0 =>
              /\ scans[p] = runs[p]
              /\ pc[p] \in {"loop", "exec", "read", "cleanup"} => invoked[p] = scans[p]
              /\ pc[p] \in {"wait", "scan"} => invoked[p] = scans[p] + 1
              /\ runErr[p] # Nil => (Returned(p) /\ invoked[p] = scans[p] + 1)
              /\ (Returned(p) /\ runErr[p] = Nil) => invoked[p] = scans[p]
        /\ options[p].Runs > 0 => scans[p] = 0

\* The third pass is about to start: two passes, two scans.
C14_Witness ==
    \E p \in calls :
        /\ options[p].Runs = 0
        /\ pc[p] = "exec"
        /\ invoked[p] = 2
        /\ scans[p] = 2
        /\ rerun[p]

(***************************************************************************)
(* C15: if all passes succeed but gotex.pdf is missing or cannot be read   *)
(* after the loop, Render returns a failure with a nil artifact and does   *)
(* not remove the directory.                                               *)
(***************************************************************************)
C15_ReadFailureKeepsDir ==
    \A p \in calls :
        /\ (Returned(p) /\ LoopOver(p) /\ pdfPass[p] = 0) => Failed(p)
        /\ (Returned(p) /\ LoopOver(p) /\ Failed(p)) =>
              /\ reads[p] = 1
              /\ result[p] = Failure(ErrReadFile(dir[p]))
              /\ removes[p] = 0
              /\ HoldsDir(p)
              /\ fs[dir[p]].log = File(p, runs[p], fs[dir[p]].log.body)

\* Two passes succeeded, neither wrote gotex.pdf.
C15_Witness ==
    \E p \in calls :
        /\ Failed(p)
        /\ LoopOver(p)
        /\ runs[p] = 2
        /\ pdfPass[p] = 0
        /\ HoldsDir(p)

(***************************************************************************)
(* C16: if gotex.pdf was read and os.RemoveAll fails, Render still returns *)
(* the bytes and no failure.                                               *)
(***************************************************************************)
C16_RemoveFailureSwallowed ==
    \A p \in calls :
        (Returned(p) /\ removes[p] = 1 /\ ~removeOk[p]) =>
            /\ result[p].err = Nil
            /\ result[p].output = File(p, pdfPass[p], PdfBody)
            /\ result[p].output # NilBytes

\* The removal failed, the directory is still there, Render succeeded.
C16_Witness ==
    \E p \in calls :
        /\ Returned(p)
        /\ removes[p] = 1
        /\ ~removeOk[p]
        /\ HoldsDir(p)
        /\ result[p].err = Nil

(***************************************************************************)
(* C17: if the directory cannot be created Render returns that failure at  *)
(* once, with a nil artifact: no runLatex call, no needsRerun call, no     *)
(* read, no removal.                                                       *)
(***************************************************************************)
C17_TempDirFailureReturns ==
    \A p \in calls :
        (pc[p] \notin {"start", "none"} /\ dir[p] = NoDir) =>
            /\ Returned(p)
            /\ result[p] = Failure(ErrTempDir)
            /\ invoked[p] = 0
            /\ scans[p] = 0
            /\ reads[p] = 0
            /\ removes[p] = 0
            /\ \A d \in Dirs : fs[d].creator # p

\* ioutil.TempDir failed and Render has returned.
C17_Witness ==
    \E p \in calls :
        /\ Returned(p)
        /\ dir[p] = NoDir
        /\ result[p].err = ErrTempDir

(***************************************************************************)
(* C18: for every Runs value, once the directory is created Render calls   *)
(* runLatex at least once and at most max(5, Runs) times, and returns an   *)
(* artifact only after at least one successful pass.                       *)
(***************************************************************************)
Max(a, b) == IF a >= b THEN a ELSE b

C18_PassCountBounds ==
    \A p \in calls :
        /\ invoked[p] <= Max(5, options[p].Runs)
        /\ (dir[p] # NoDir /\ pc[p] \in {"read", "cleanup", "done"}) => invoked[p] >= 1
        /\ result[p].output # NilBytes => (runs[p] >= 1 /\ pdfPass[p] >= 1)

\* A negative Runs: five passes, then the artifact.
C18_Witness ==
    \E p \in calls :
        /\ options[p].Runs < 0
        /\ Succeeded(p)
        /\ invoked[p] = 5

(***************************************************************************)
(* C19: provided every compiler process exits, every Render call returns,  *)
(* for every Runs value and every sequence of logs.                        *)
(***************************************************************************)
C19_RenderReturns == <>(\A p \in calls : Returned(p))

\* An automagic call has returned after five logs that all ask for a rerun.
C19_Witness ==
    \E p \in calls :
        /\ options[p].Runs = 0
        /\ Returned(p)
        /\ firstQuiet[p] = 0
        /\ invoked[p] = AutoLimit
        /\ scans[p] = AutoLimit

====
